---- MODULE Spec2Model ----
(***************************************************************************)
(* State-machine model of src/lstm/model.go:                               *)
(*   - charRNN: ModeLearn, ModeInference, Learn, Predict, feedback, reset  *)
(*   - AverageSimilarity: NewAverageSimilarity, Train                      *)
(*                                                                         *)
(* The differentiable-computation engine (gorgonia), the tensor library,   *)
(* the solver, the samplers and the Vocabulary are collaborators whose     *)
(* code is not part of model.go.  They are modelled by their contract:     *)
(*   - RunAll and solver.Step either succeed or fail (free choice);        *)
(*   - sample / maxSample return any index of the output distribution      *)
(*     (the weights are arbitrary, so any index can be the arg-max);       *)
(*   - a value computed by the machine is represented by its provenance:   *)
(*     the timestep (tap), layer and part (hidden / cell) of the node that *)
(*     produced it, and whether the latest execution produced it.          *)
(* Go slices are functions over 0..len-1, so indices read as in the code.  *)
(***************************************************************************)
EXTENDS Integers, Sequences, FiniteSets, TLC

\* ------------------------------------------------------------------ bounds
MaxCap   == 1     \* maxCharGen is drawn from 0..MaxCap
MaxSteps == 3     \* ModeLearn(steps) is called with steps in 1..MaxSteps
MaxLen   == 4     \* Learn is called with sentences of length 0..MaxLen
MaxTrain == 2100  \* number of AverageSimilarity.Train calls explored
NLayers  == 2     \* number of stacked LSTM layers, len(m.hiddenSizes)

\* ------------------------------------------------------- program constants
vectorsSize == 1024

\* -------------------------------------------------------------- vocabulary
END  == "END"
List == <<"a", "b", END>>          \* Vocabulary.List, index i is List[i+1]
outputSize == Len(List)
Runes == {List[i] : i \in 1..Len(List)}

ListAt(i) == List[i + 1]

\* Vocabulary.Index: a Go map, a missing key reads as 0
Index(c) ==
    IF \E i \in 0..(outputSize - 1) : ListAt(i) = c
    THEN CHOOSE i \in 0..(outputSize - 1) : ListAt(i) = c
    ELSE 0

\* ----------------------------------------------------------------- tensors
Layers == 0..(NLayers - 1)

\* a freshly allocated or Zero()-ed dense vector of the input/output size
ZeroVec == [k \in 0..(outputSize - 1) |-> 0]

\* t.Zero(); t.SetF32(id, 1.0)
OneHot(id) == [k \in 0..(outputSize - 1) |-> IF k = id THEN 1 ELSE 0]

\* the value of a state node
NoValue   == [kind |-> "none", tap |-> 0, layer |-> 0, part |-> "-", fresh |-> FALSE]
ZeroValue == [kind |-> "zero", tap |-> 0, layer |-> 0, part |-> "-", fresh |-> FALSE]
Computed(t, i, p) == [kind |-> "val", tap |-> t, layer |-> i, part |-> p, fresh |-> TRUE]
Stale(v) == [v EXCEPT !.fresh = FALSE]

\* an lstmOut whose nodes hold no value yet (built by fwd, never executed)
NoOut == [hiddens |-> [i \in Layers |-> NoValue],
          cells   |-> [i \in Layers |-> NoValue],
          probs   |-> FALSE]

\* the carry state after reset()
ZeroState == [hiddens |-> [i \in Layers |-> ZeroValue],
              cells   |-> [i \in Layers |-> ZeroValue]]

Size(f) == Cardinality(DOMAIN f)
At(s, i) == s[i + 1]               \* sentence[i]

VARIABLES
    \* package variable (var maxCharGen = 100): the decoding loops use it only
    \* in the test len(sentence) > maxCharGen, the model explores 0..MaxCap
    maxCharGen,
    \* charRNN fields
    steps, inputs, outputs, previous, cost, machine, prevState,
    \* position of the running call, and how the last call ended
    pc, outcome, err, failed,
    \* locals of the running call
    sentence, x, retCost, retPerp, loop, sentence1, sentence2, char,
    \* observation of the running call
    snap, windows, reads, updates, selected1, selected2,
    \* AverageSimilarity fields and observation
    vectors, begin, length, trained, touched

rnnFields  == <<maxCharGen, steps, inputs, outputs, previous, cost, machine, prevState>>
statusVars == <<pc, outcome, err, failed>>
localVars  == <<sentence, x, retCost, retPerp, loop, sentence1, sentence2, char>>
obsVars    == <<snap, windows, reads, updates, selected1, selected2>>
asVars     == <<vectors, begin, length, trained, touched>>
vars       == <<rnnFields, statusVars, localVars, obsVars, asVars>>

\* ------------------------------------------------------------------- Init
\* NewCharRNN: no mode chosen yet, carry state allocated as zero tensors
Init ==
    /\ maxCharGen \in 0..MaxCap
    /\ steps = 0
    /\ inputs = <<>>
    /\ outputs = <<>>
    /\ previous = <<>>
    /\ cost = "nil"
    /\ machine = [built |-> FALSE, covers |-> FALSE, dirty |-> FALSE]
    /\ prevState = ZeroState
    /\ pc = "idle"
    /\ sentence = <<>>
    /\ x = 0
    /\ retCost = <<>>
    /\ retPerp = <<>>
    /\ err = "nil"
    /\ loop = 0
    /\ sentence1 = <<>>
    /\ sentence2 = <<>>
    /\ char = "-"
    /\ outcome = "none"
    /\ snap = ZeroState
    /\ windows = <<>>
    /\ reads = {}
    /\ updates = 0
    /\ failed = FALSE
    /\ selected1 = <<>>
    /\ selected2 = <<>>
    /\ vectors = <<>>
    /\ begin = 0
    /\ length = 0
    /\ trained = 0
    /\ touched = {}

\* ------------------------------------------------------------ mode set-up
\* Grad(cost, learnables): succeeds on the scalar cost node of a window, and
\* fails (an error or a panic) on the nil cost ModeLearn(1) leaves
GradOk(c) == c # "nil"

\* ModeLearn(s): s-1 forward steps are built (shapes are fixed by
\* NewLSTMModel, so fwd does not fail); the fields are assigned before Grad
\* is called, the machine is replaced only when Grad succeeds
ModeLearn(s) ==
    /\ pc = "idle"
    /\ steps' = s
    /\ inputs' = [i \in 0..(s - 2) |-> ZeroVec]
    /\ outputs' = [i \in 0..(s - 2) |-> ZeroVec]
    /\ previous' = [i \in 0..(s - 2) |-> NoOut]
    /\ cost' = IF s - 1 > 0 THEN "node" ELSE "nil"
    /\ machine' = IF GradOk(cost')
                  THEN [built |-> TRUE, covers |-> TRUE, dirty |-> FALSE]
                  ELSE [machine EXCEPT !.covers = FALSE]
    /\ UNCHANGED <<maxCharGen, prevState, statusVars, localVars, obsVars, asVars>>

\* ModeInference: one forward step, a fresh machine over the whole graph
ModeInference ==
    /\ pc = "idle"
    /\ inputs' = [i \in 0..0 |-> ZeroVec]
    /\ previous' = [i \in 0..0 |-> NoOut]
    /\ machine' = [built |-> TRUE, covers |-> TRUE, dirty |-> FALSE]
    /\ UNCHANGED <<maxCharGen, steps, outputs, cost, prevState, statusVars,
                   localVars, obsVars, asVars>>

\* ----------------------------------------------------------------- engine
\* every node of r.previous bound to the value a complete execution computes
Executed ==
    [t \in DOMAIN previous |->
        [hiddens |-> [i \in Layers |-> Computed(t, i, "h")],
         cells   |-> [i \in Layers |-> Computed(t, i, "c")],
         probs   |-> TRUE]]

\* the values already bound, none of them written by the latest execution
Aged ==
    [t \in DOMAIN previous |->
        [hiddens |-> [i \in Layers |-> Stale(previous[t].hiddens[i])],
         cells   |-> [i \in Layers |-> Stale(previous[t].cells[i])],
         probs   |-> previous[t].probs]]

\* an execution that failed after p timesteps of the forward pass
Partial(p) ==
    [t \in DOMAIN previous |-> IF t < p THEN Executed[t] ELSE Aged[t]]

\* machine.RunAll(): the possible values of r.previous afterwards.  A machine
\* built before the current nodes does not write them; re-executing a machine
\* that was not Reset is outside the engine's contract and may write nothing.
RunAllResults(ok) ==
    IF ~machine.covers THEN {Aged}
    ELSE IF ok THEN (IF machine.dirty THEN {Executed, Aged} ELSE {Executed})
    ELSE {Partial(p) : p \in 0..Size(previous)}

\* ------------------------------------------------------------ state bridge
FirstNone(vals) ==
    IF \E i \in Layers : vals[i].kind = "none"
    THEN CHOOSE i \in Layers : vals[i].kind = "none"
                               /\ \A k \in Layers : k < i => vals[k].kind # "none"
    ELSE NLayers

\* feedback(tap): copies hiddens then cells of r.previous[tap], layer by
\* layer, into the carry state; panics on a missing tap or on a node that
\* holds no value (the copies made before the panic stay)
Feedback(tap) ==
    IF tap \notin DOMAIN previous
    THEN [ok |-> FALSE, state |-> prevState]
    ELSE LET prev == previous[tap]
             hf == FirstNone(prev.hiddens)
             cf == IF hf = NLayers THEN FirstNone(prev.cells) ELSE 0
         IN [ok |-> (hf = NLayers /\ cf = NLayers),
             state |-> [hiddens |-> [i \in Layers |->
                                      IF i < hf THEN prev.hiddens[i]
                                      ELSE prevState.hiddens[i]],
                        cells   |-> [i \in Layers |->
                                      IF i < cf THEN prev.cells[i]
                                      ELSE prevState.cells[i]]]]

\* ------------------------------------------------------------------ calls
\* the locals of a call: fresh when it starts, gone when it ends
FreshLocals ==
    /\ x' = 0
    /\ retCost' = <<>>
    /\ retPerp' = <<>>
    /\ sentence1' = <<>>
    /\ sentence2' = <<>>
    /\ char' = "-"
    /\ snap' = ZeroState
    /\ windows' = <<>>
    /\ reads' = {}
    /\ updates' = 0
    /\ selected1' = <<>>
    /\ selected2' = <<>>

\* the running call ends: o is "ok", "error" (Learn returns e) or "panic"
Return(o, e) ==
    /\ pc' = "idle"
    /\ outcome' = o
    /\ err' = e
    /\ sentence' = <<>>
    /\ loop' = 0
    /\ FreshLocals

Panic == Return("panic", "nil")

\* ------------------------------------------------------------------ Learn
\* Learn(sentence, iter, solver): n := len(sentence); r.reset()
LearnCall(sent) ==
    /\ pc = "idle"
    /\ sentence' = sent
    /\ prevState' = ZeroState
    /\ loop' = 0
    /\ FreshLocals
    /\ pc' = "L_loop"
    /\ outcome' = "running"
    /\ err' = "nil"
    /\ failed' = FALSE
    /\ UNCHANGED <<maxCharGen, steps, inputs, outputs, previous, cost, machine, asVars>>

\* (variant: the loop bound taken from r.steps instead of r.steps - 1)
LoopCondShort(xx, n, k) == xx < n - (k + 1)

\* for x := 0; x < n-steps; x++   with steps := r.steps - 1
LoopCond(xx, n, k) == xx < n - k

\* the indices read by source := sentence[x+j]; target := sentence[x+j+1]
SourceIndex(xx, j) == xx + j
TargetIndex(xx, j) == xx + j + 1

\* the first j of the inner loop at which an index is out of range, k if none
FirstBad(n, k) ==
    LET Bad(j) == \/ SourceIndex(x, j) \notin 0..(n - 1)
                  \/ TargetIndex(x, j) \notin 0..(n - 1)
                  \/ j \notin DOMAIN inputs
                  \/ j \notin DOMAIN outputs
    IN IF \E j \in 0..(k - 1) : Bad(j)
       THEN CHOOSE j \in 0..(k - 1) : Bad(j) /\ \A i \in 0..(j - 1) : ~Bad(i)
       ELSE IF k > 0 THEN k ELSE 0

\* head of the window loop: leave the loop and return, or fill inputs[j] and
\* outputs[j] for j in 0..steps-1 (a panic keeps what was written before it)
LearnWindow ==
    /\ pc = "L_loop"
    /\ LET n == Len(sentence)
           k == steps - 1
           jf == FirstBad(n, k)
           bad == jf < k
           srcOk == SourceIndex(x, jf) \in 0..(n - 1)
           tgtOk == srcOk /\ TargetIndex(x, jf) \in 0..(n - 1)
           inOk == tgtOk /\ jf \in DOMAIN inputs
       IN IF ~LoopCond(x, n, k)
          THEN /\ Return("ok", "nil")
               /\ UNCHANGED <<inputs, outputs>>
          ELSE /\ inputs' = [j \in DOMAIN inputs |->
                               IF j < jf \/ (bad /\ j = jf /\ inOk)
                               THEN OneHot(Index(At(sentence, SourceIndex(x, j))))
                               ELSE inputs[j]]
               /\ outputs' = [j \in DOMAIN outputs |->
                               IF j < jf
                               THEN OneHot(Index(At(sentence, TargetIndex(x, j))))
                               ELSE outputs[j]]
               /\ IF bad
                  THEN Panic
                  ELSE /\ reads' = {SourceIndex(x, j) : j \in 0..(k - 1)}
                                   \cup {TargetIndex(x, j) : j \in 0..(k - 1)}
                       /\ snap' = prevState
                       /\ windows' = Append(windows, x)
                       /\ pc' = "L_run"
                       /\ UNCHANGED <<outcome, err, sentence, x, retCost, retPerp, loop,
                                      sentence1, sentence2, char, updates,
                                      selected1, selected2>>
    /\ UNCHANGED <<maxCharGen, steps, previous, cost, machine, prevState, failed, asVars>>

\* err = r.machine.RunAll(); a failure returns the error
LearnRun ==
    /\ pc = "L_run"
    /\ IF ~machine.built
       THEN /\ Panic
            /\ UNCHANGED <<previous, machine, failed>>
       ELSE \E ok \in BOOLEAN : \E pv \in RunAllResults(ok) :
            /\ previous' = pv
            /\ machine' = [machine EXCEPT !.dirty = TRUE]
            /\ failed' = ~ok
            /\ IF ok
               THEN /\ pc' = "L_step"
                    /\ UNCHANGED <<outcome, err, localVars, obsVars>>
               ELSE Return("error", "engine")
    /\ UNCHANGED <<maxCharGen, steps, inputs, outputs, cost, prevState, asVars>>

\* (variant: the error of solver.Step is stored but not checked)
OnStepErrorIgnored ==
    /\ err' = "solver"
    /\ pc' = "L_record"
    /\ UNCHANGED <<outcome, localVars, obsVars>>

\* what Learn does when solver.Step returns an error: return it
OnStepError ==
    /\ Return("error", "solver")

\* err = solver.Step(r.learnables())
LearnStep ==
    /\ pc = "L_step"
    /\ \E ok \in BOOLEAN :
         IF ok
         THEN /\ updates' = updates + 1
              /\ pc' = "L_record"
              /\ UNCHANGED <<outcome, err, localVars, snap, windows, reads,
                             selected1, selected2>>
         ELSE OnStepError
    /\ UNCHANGED <<rnnFields, failed, asVars>>

\* retPerp / retCost are appended when the node's value is a Scalar; a nil
\* node has none (Value() of a nil *Node either panics or returns nil)
LearnRecord ==
    /\ pc = "L_record"
    /\ IF cost = "node"
       THEN /\ retPerp' = Append(retPerp, x)
            /\ retCost' = Append(retCost, x)
            /\ pc' = "L_feedback"
            /\ UNCHANGED <<outcome, err, sentence, x, loop, sentence1, sentence2, char,
                           obsVars>>
       ELSE \/ Panic
            \/ /\ pc' = "L_feedback"
               /\ UNCHANGED <<outcome, err, localVars, obsVars>>
    /\ UNCHANGED <<rnnFields, failed, asVars>>

\* (variant: the last timestep of the window is fed back)
LearnTapLast == steps - 2

\* the tap Learn hands to feedback: r.feedback(0)
LearnTap == 0

LearnFeedback ==
    /\ pc = "L_feedback"
    /\ LET fb == Feedback(LearnTap)
       IN /\ prevState' = fb.state
          /\ IF fb.ok
             THEN /\ pc' = "L_reset"
                  /\ UNCHANGED <<outcome, err, localVars, obsVars>>
             ELSE Panic
    /\ UNCHANGED <<maxCharGen, steps, inputs, outputs, previous, cost, machine,
                   failed, asVars>>

\* r.machine.Reset(); x++
LearnReset ==
    /\ pc = "L_reset"
    /\ machine' = [machine EXCEPT !.dirty = FALSE]
    /\ x' = x + 1
    /\ pc' = "L_loop"
    /\ UNCHANGED <<maxCharGen, steps, inputs, outputs, previous, cost, prevState,
                   outcome, err, failed,
                   sentence, retCost, retPerp, loop, sentence1, sentence2, char,
                   obsVars, asVars>>

\* ---------------------------------------------------------------- Predict
\* the sentence of the running decoding loop (1: sample, 2: maxSample)
Current == IF loop = 1 THEN sentence1 ELSE sentence2

\* Predict(): r.reset(), then the sampling loop
PredictCall ==
    /\ pc = "idle"
    /\ sentence' = <<>>
    /\ prevState' = ZeroState
    /\ loop' = 1
    /\ FreshLocals
    /\ pc' = "P_input"
    /\ outcome' = "running"
    /\ err' = "nil"
    /\ failed' = FALSE
    /\ UNCHANGED <<maxCharGen, steps, inputs, outputs, previous, cost, machine, asVars>>

\* (variant: the first emitted symbol is fed back instead of the last)
InputIDFirst(sent) == IF Len(sent) > 0 THEN Index(sent[1]) ELSE 0

\* var id int; if len(sentence) > 0 { id = r.Index[sentence[len(sentence)-1]] }
InputID(sent) == IF Len(sent) > 0 THEN Index(sent[Len(sent)]) ELSE 0

\* r.inputs[0].Zero(); r.inputs[0].SetF32(id, 1.0)
PredictInput ==
    /\ pc = "P_input"
    /\ IF 0 \in DOMAIN inputs
       THEN /\ inputs' = [inputs EXCEPT ![0] = OneHot(InputID(Current))]
            /\ pc' = "P_run"
            /\ UNCHANGED <<outcome, err, localVars, obsVars>>
       ELSE /\ Panic
            /\ UNCHANGED inputs
    /\ UNCHANGED <<maxCharGen, steps, outputs, previous, cost, machine, prevState,
                   failed, asVars>>

\* if err = r.machine.RunAll(); err != nil { log.Printf(...) }: the error is
\* logged and the step goes on
PredictRun ==
    /\ pc = "P_run"
    /\ IF ~machine.built
       THEN /\ Panic
            /\ UNCHANGED <<previous, machine, failed>>
       ELSE \E ok \in BOOLEAN : \E pv \in RunAllResults(ok) :
            /\ previous' = pv
            /\ machine' = [machine EXCEPT !.dirty = TRUE]
            /\ failed' = (failed \/ ~ok)
            /\ pc' = "P_select"
            /\ UNCHANGED <<outcome, err, localVars, obsVars>>
    /\ UNCHANGED <<maxCharGen, steps, inputs, outputs, cost, prevState, asVars>>

\* (variant: the END test is missing)
StopsAtCapOnly(c, len) == len > maxCharGen

\* if char == END { break }; if len(sentence) > maxCharGen { break }
Stops(c, len) == c = END \/ len > maxCharGen

\* sampledID := sample(probs) / maxSample(probs); char = r.List[sampledID];
\* a distribution node without a value cannot be sampled
PredictSelect ==
    /\ pc = "P_select"
    /\ IF ~previous[0].probs
       THEN Panic
       ELSE \E sampledID \in 0..(outputSize - 1) :
            /\ char' = ListAt(sampledID)
            /\ IF loop = 1
               THEN /\ selected1' = Append(selected1, char')
                    /\ UNCHANGED selected2
               ELSE /\ selected2' = Append(selected2, char')
                    /\ UNCHANGED selected1
            /\ pc' = IF Stops(char', Len(Current)) THEN "P_break" ELSE "P_append"
            /\ UNCHANGED <<outcome, err, sentence, x, retCost, retPerp, loop,
                           sentence1, sentence2, snap, windows, reads, updates>>
    /\ UNCHANGED <<rnnFields, failed, asVars>>

\* break: the sampling loop is followed by r.reset() and the arg-max loop,
\* the arg-max loop by the Printf that ends the call
PredictBreak ==
    /\ pc = "P_break"
    /\ IF loop = 1
       THEN /\ loop' = 2
            /\ prevState' = ZeroState
            /\ pc' = "P_input"
            /\ UNCHANGED <<outcome, err, sentence, x, retCost, retPerp,
                           sentence1, sentence2, char, obsVars>>
       ELSE /\ Return("ok", "nil")
            /\ UNCHANGED prevState
    /\ UNCHANGED <<maxCharGen, steps, inputs, outputs, previous, cost, machine,
                   failed, asVars>>

\* sentence = append(sentence, char)
PredictAppend ==
    /\ pc = "P_append"
    /\ IF loop = 1
       THEN /\ sentence1' = Append(sentence1, char)
            /\ UNCHANGED sentence2
       ELSE /\ sentence2' = Append(sentence2, char)
            /\ UNCHANGED sentence1
    /\ pc' = "P_feedback"
    /\ UNCHANGED <<rnnFields, outcome, err, failed,
                   sentence, x, retCost, retPerp, loop, char, obsVars, asVars>>

\* r.feedback(0)
PredictFeedback ==
    /\ pc = "P_feedback"
    /\ LET fb == Feedback(0)
       IN /\ prevState' = fb.state
          /\ IF fb.ok
             THEN /\ pc' = "P_reset"
                  /\ UNCHANGED <<outcome, err, localVars, obsVars>>
             ELSE Panic
    /\ UNCHANGED <<maxCharGen, steps, inputs, outputs, previous, cost, machine,
                   failed, asVars>>

\* r.machine.Reset()
PredictReset ==
    /\ pc = "P_reset"
    /\ machine' = [machine EXCEPT !.dirty = FALSE]
    /\ pc' = "P_input"
    /\ UNCHANGED <<maxCharGen, steps, inputs, outputs, previous, cost, prevState,
                   outcome, err, failed, localVars, obsVars, asVars>>

\* ------------------------------------------------------ AverageSimilarity
\* NewAverageSimilarity: vectorsSize nil slots, begin = length = 0
InitAS ==
    /\ maxCharGen = 0
    /\ steps = 0
    /\ inputs = <<>>
    /\ outputs = <<>>
    /\ previous = <<>>
    /\ cost = "nil"
    /\ machine = [built |-> FALSE, covers |-> FALSE, dirty |-> FALSE]
    /\ prevState = ZeroState
    /\ pc = "idle"
    /\ sentence = <<>>
    /\ x = 0
    /\ retCost = <<>>
    /\ retPerp = <<>>
    /\ err = "nil"
    /\ loop = 0
    /\ sentence1 = <<>>
    /\ sentence2 = <<>>
    /\ char = "-"
    /\ outcome = "none"
    /\ snap = ZeroState
    /\ windows = <<>>
    /\ reads = {}
    /\ updates = 0
    /\ failed = FALSE
    /\ selected1 = <<>>
    /\ selected2 = <<>>
    /\ vectors = [i \in 0..(vectorsSize - 1) |-> 0]
    /\ begin = 0
    /\ length = 0
    /\ trained = 0
    /\ touched = {}

\* the indices of a.vectors read by the similarity loop:
\* c := a.begin; repeat a.length times { read vectors[c]; c = (c+1) % vectorsSize }
ReadIndices == {(begin + i) % vectorsSize : i \in 0..(length - 1)}

\* the index written when the buffer is not yet full: a.begin + a.length
FillIndex == begin + length

\* (variant: begin advances without wrapping)
NextBeginNoWrap == begin + 1

\* a.begin = (a.begin + 1) % vectorsSize
NextBegin == (begin + 1) % vectorsSize

\* Train(input): the k-th call is given input k (inputs are told apart by
\* their arrival number, 0 is an empty slot); an index outside the slice
\* panics and leaves the fields as they were.  The returned average
\* similarity is a float computed from the slots read and is not state.
Train ==
    /\ pc = "idle"
    /\ trained < MaxTrain
    /\ LET input == trained + 1
           w == IF length < vectorsSize THEN FillIndex ELSE begin
       IN /\ trained' = input
          /\ touched' = ReadIndices \cup {w}
          /\ IF touched' \subseteq DOMAIN vectors
             THEN /\ vectors' = [vectors EXCEPT ![w] = input]
                  /\ IF length < vectorsSize
                     THEN /\ length' = length + 1
                          /\ UNCHANGED begin
                     ELSE /\ begin' = NextBegin
                          /\ UNCHANGED length
                  /\ UNCHANGED outcome
             ELSE /\ outcome' = "panic"
                  /\ UNCHANGED <<vectors, begin, length>>
    /\ UNCHANGED <<rnnFields, pc, err, failed, localVars, obsVars>>

\* ---------------------------------------------------------- specifications
\* the sentences given to Learn: the windows of length 0..MaxLen of the text
\* "a b END a b END ...", so neighbouring symbols always differ
Sentences ==
    {[i \in 1..n |-> ListAt((o + i - 1) % outputSize)] :
        n \in 0..MaxLen, o \in 0..(outputSize - 1)}

Next ==
    \/ \E s \in 1..MaxSteps : ModeLearn(s)
    \/ ModeInference
    \/ \E sent \in Sentences : LearnCall(sent)
    \/ LearnWindow
    \/ LearnRun
    \/ LearnStep
    \/ LearnRecord
    \/ LearnFeedback
    \/ LearnReset
    \/ PredictCall
    \/ PredictInput
    \/ PredictRun
    \/ PredictSelect
    \/ PredictBreak
    \/ PredictAppend
    \/ PredictFeedback
    \/ PredictReset

Spec == Init /\ [][Next]_vars

NextAS == Train

SpecAS == InitAS /\ [][NextAS]_vars

\* ----------------------------------------------------------------- claims
LearnPcs   == {"L_loop", "L_run", "L_step", "L_record", "L_feedback", "L_reset"}
PredictPcs == {"P_input", "P_run", "P_select", "P_break", "P_append",
               "P_feedback", "P_reset"}

Min(a, b) == IF a < b THEN a ELSE b
Range(s) == {s[i] : i \in 1..Len(s)}
Last(s) == s[Len(s)]

\* C1: in Predict neither the sampled nor the arg-max sentence is ever
\* longer than maxCharGen.  (The cap is tested before the append with
\* len > maxCharGen, so a sentence of length maxCharGen still grows.)
C1_LengthWithinCap ==
    /\ Len(sentence1) <= maxCharGen
    /\ Len(sentence2) <= maxCharGen

\* the carry state made of the values timestep t computed in the latest execution
StateOfTap(t) ==
    [hiddens |-> [i \in Layers |-> Computed(t, i, "h")],
     cells   |-> [i \in Layers |-> Computed(t, i, "c")]]

C3_FirstInputIsZero ==
    pc = "P_run" =>
        \A k \in 0..(outputSize - 1) :
            inputs[0][k] = IF Len(Current) > 0 /\ ListAt(k) = Last(Current) THEN 1 ELSE 0

\* C3 amended: the vector fed to the first step of a decoding loop is the
\* one-hot vector of vocabulary index 0, the vector fed to a later step is the
\* one-hot vector of the symbol emitted last.
C3_FirstInputIsIndexZero ==
    pc = "P_run" =>
        \A k \in 0..(outputSize - 1) :
            inputs[0][k] = IF Len(Current) = 0
                           THEN (IF k = 0 THEN 1 ELSE 0)
                           ELSE (IF ListAt(k) = Last(Current) THEN 1 ELSE 0)

\* the arg-max loop feeds the third step after emitting two different symbols
C3_Witness ==
    /\ pc = "P_run"
    /\ loop = 2
    /\ Len(sentence2) = 2
    /\ sentence2[1] # sentence2[2]

\* C4: once RunAll has failed in a Learn or Predict call, the call does
\* nothing more: it is over, or (in Predict) it stands right behind the
\* failed RunAll and ends without selecting a symbol.
C4_EngineFailureIsFatal ==
    failed => pc \in {"idle", "P_select"}

\* C5: when solver.Step fails in window x, Learn returns that error at once;
\* the carry state is the one window x started with, and neither the nodes
\* nor the machine are touched (no feedback, no further RunAll, no Reset).
C5_StepErrorAborts ==
    [][(pc = "L_step" /\ err' = "solver") =>
          /\ pc' = "idle"
          /\ outcome' = "error"
          /\ prevState' = prevState
          /\ prevState' = snap
          /\ previous' = previous
          /\ machine' = machine]_vars

\* Learn returned the solver's error from a window after the first: the
\* carry state is the one the earlier window fed back
C5_Witness ==
    /\ pc = "idle"
    /\ err = "solver"
    /\ outcome = "error"
    /\ prevState = StateOfTap(0)

\* the offsets 0, 1, ..., m
Offsets(m) == [i \in 1..(m + 1) |-> i - 1]

\* Learn runs on a model unrolled by ModeLearn(steps), 2 <= steps <= n
C6_Pre ==
    /\ steps >= 2
    /\ steps <= Len(sentence)
    /\ DOMAIN inputs = 0..(steps - 2)
    /\ DOMAIN outputs = 0..(steps - 2)

\* C6: with 2 <= steps <= n, Learn starts its windows at x = 0, 1, ...,
\* n-steps in this order and returns normally only after all n-steps+1 of
\* them; window x sets inputs[j] to the one-hot vector of sentence[x+j] and
\* outputs[j] to that of sentence[x+j+1] for j in 0..steps-2, and no index
\* read is outside 0..n-1 (filling a window never panics).
C6_Windows ==
    [][(pc = "L_loop" /\ C6_Pre) =>
          /\ outcome' # "panic"
          /\ pc' = "idle" => windows = Offsets(Len(sentence) - steps)
          /\ pc' = "L_run" =>
                /\ x <= Len(sentence) - steps
                /\ windows' = Offsets(x)
                /\ reads' \subseteq 0..(Len(sentence) - 1)
                /\ \A j \in 0..(steps - 2) : \A k \in 0..(outputSize - 1) :
                      /\ inputs'[j][k] = IF ListAt(k) = At(sentence, x + j) THEN 1 ELSE 0
                      /\ outputs'[j][k] = IF ListAt(k) = At(sentence, x + j + 1)
                                          THEN 1 ELSE 0]_vars

\* the second window of a three-step model over a sentence of length four
C6_Witness ==
    /\ pc = "L_run"
    /\ steps = 3
    /\ Len(sentence) = 4
    /\ x = 1
    /\ windows = <<0, 1>>

\* C7: in a Learn call that follows ModeLearn(1) (the last mode set-up, whose
\* Grad fails, so that the machine does not cover the new graph) no cost or
\* perplexity is recorded and solver.Step is never invoked.
C7_NoTrainingAtStepsOne ==
    (steps = 1 /\ ~machine.covers /\ pc \in LearnPcs) =>
        /\ updates = 0
        /\ retCost = <<>>
        /\ retPerp = <<>>

\* what C8 says of one decoding loop: sel are the symbols selected so far,
\* sent the symbols emitted so far
C8_Loop(sel, sent) ==
    /\ END \notin Range(sent)
    /\ \A i \in 1..(Len(sel) - 1) : sel[i] # END
    /\ (Len(sel) > 0 /\ sel[1] = END) => sent = <<>>

\* C8: in each decoding loop END is never emitted, nothing is selected after
\* END was selected (the loop is left at once), and the emitted sentence is
\* empty when the first selected symbol is END.
C8_StopsAtEnd ==
    /\ C8_Loop(selected1, sentence1)
    /\ C8_Loop(selected2, sentence2)
    /\ (pc \in PredictPcs /\ loop = 1 /\ Len(selected1) > 0 /\ Last(selected1) = END)
          => pc = "P_break"
    /\ (pc \in PredictPcs /\ loop = 2 /\ Len(selected2) > 0 /\ Last(selected2) = END)
          => pc = "P_break"

\* the arg-max loop selected END first, after the sampling loop emitted a
\* symbol and then selected END
C8_Witness ==
    /\ pc = "P_break"
    /\ loop = 2
    /\ selected2 = <<END>>
    /\ sentence2 = <<>>
    /\ Len(sentence1) = 1
    /\ Last(selected1) = END

\* C9: whenever RunAll is about to execute a machine that has executed
\* before, the machine has been Reset since its last execution.
C9_ResetBeforeEveryRun ==
    (pc \in {"L_run", "P_run"} /\ machine.built) => ~machine.dirty

\* C10: after k Train calls 0 <= begin < vectorsSize, length is
\* min(k, vectorsSize), every index of vectors read or written is in range,
\* and the slots begin, begin+1, ..., begin+length-1 (mod vectorsSize) hold
\* the last min(k, vectorsSize) inputs in arrival order.
C10_RingBuffer ==
    /\ begin \in 0..(vectorsSize - 1)
    /\ length = Min(trained, vectorsSize)
    /\ touched \subseteq 0..(vectorsSize - 1)
    /\ outcome # "panic"
    /\ \A i \in 0..(length - 1) :
          vectors[(begin + i) % vectorsSize] = trained - length + 1 + i

\* the buffer has been overwritten twice over and begin has wrapped around
C10_Witness ==
    /\ trained = 2 * vectorsSize + 3
    /\ begin = 3
    /\ length = vectorsSize
    /\ vectors[2] = trained

====
